---- MODULE Spec2Model ----
(***************************************************************************)
(* commit-split: parsing `git status --porcelain`, validating the grouping *)
(* proposed by the language model, repairing it and committing the groups. *)
(*                                                                         *)
(* Strings are sequences of one-character strings, so that the regular     *)
(* expression, split, trim and includes of the source are computed on the  *)
(* characters.                                                             *)
(***************************************************************************)
EXTENDS Integers, Sequences, FiniteSets, TLC

VARIABLES
    entry,            \* the function the run entered by: "main" or "parseGitStatusOutput"
    pc,               \* position of the run
    statusOutput,     \* parseGitStatusOutput's argument (a string)
    statusLines,      \* its local statusLines
    lineNo,           \* index in statusLines of the line the for-loop is at
    fileChanges,      \* FileChange[] being built / returned
    origin,           \* history: for each record of fileChanges, the line it came from
    diffLookups,      \* history: the getFileDiff calls, [line, path, result]
    log,              \* history: console output and calls of the collaborators, in order
    exitCode,         \* process.exit code, -1 while the process lives
    aiCommits,        \* AICommit[]: the groups, mutated in place by commitChanges
    proposal,         \* history: aiCommits as getAICommits returned it
    validationResult, \* GeneratorValidationResult
    commitNo          \* index in aiCommits of the group the commit loop is at

parserVars == <<statusOutput, statusLines, lineNo, fileChanges, origin, diffLookups>>
commitVars == <<aiCommits, proposal, validationResult, commitNo>>

vars == <<entry, pc, statusOutput, statusLines, lineNo, fileChanges, origin, diffLookups, log, exitCode,
          aiCommits, proposal, validationResult, commitNo>>

----------------------------------------------------------------------------
(* Bounds *)

\* greatest number of lines of a status text given to the parser
MaxLines == 2

\* greatest number of groups of a proposal given to the validator
MaxGroups == 2

\* greatest number of paths in all the groups of such a proposal together
MaxEntries == 4

----------------------------------------------------------------------------
(* Strings *)

NL == "\n"

\* \s of the regular expression and the white space String.prototype.trim removes
IsSpace(c) == c \in {" ", "\t", NL}

\* . of the regular expression: any character but a line terminator
IsDot(c) == c # NL

RECURSIVE TrimStart(_)
TrimStart(s) ==
    IF s # <<>> /\ IsSpace(Head(s)) THEN TrimStart(Tail(s)) ELSE s

RECURSIVE TrimEnd(_)
TrimEnd(s) ==
    IF s # <<>> /\ IsSpace(s[Len(s)]) THEN TrimEnd(SubSeq(s, 1, Len(s) - 1)) ELSE s

\* String.prototype.trim
Trim(s) == TrimEnd(TrimStart(s))

\* whether sep occurs in s at position i
OccursAt(s, sep, i) ==
    /\ i >= 1
    /\ i + Len(sep) - 1 <= Len(s)
    /\ SubSeq(s, i, i + Len(sep) - 1) = sep

\* String.prototype.includes
Includes(s, sep) == \E i \in 1..Len(s) : OccursAt(s, sep, i)

\* String.prototype.split with a non-empty separator: the pieces, in order
RECURSIVE Split(_, _)
Split(s, sep) ==
    IF ~Includes(s, sep)
    THEN <<s>>
    ELSE LET i == CHOOSE k \in 1..Len(s) :
                      /\ OccursAt(s, sep, k)
                      /\ \A j \in 1..(k - 1) : ~OccursAt(s, sep, j)
         IN  <<SubSeq(s, 1, i - 1)>> \o Split(SubSeq(s, i + Len(sep), Len(s)), sep)

\* lines joined by "\n"
RECURSIVE JoinLines(_)
JoinLines(ls) ==
    IF ls = <<>> THEN <<>>
    ELSE IF Len(ls) = 1 THEN ls[1]
    ELSE ls[1] \o <<NL>> \o JoinLines(Tail(ls))

----------------------------------------------------------------------------
(* gitStatusParser.ts *)

\* enum FileState { M = 1, A = 2, R = 4, D = 8 }
FileState == ("M" :> 1) @@ ("A" :> 2) @@ ("R" :> 4) @@ ("D" :> 8)

\* the letters of [MARDU]
StatusLetters == {"M", "A", "R", "D", "U"}

Untracked == <<"?", "?">>

Arrow == <<"-", ">">>

\* a | b on non-negative integers
RECURSIVE BitOr(_, _)
BitOr(a, b) ==
    IF a = 0 THEN b
    ELSE IF b = 0 THEN a
    ELSE (IF a % 2 = 1 \/ b % 2 = 1 THEN 1 ELSE 0) + 2 * BitOr(a \div 2, b \div 2)

\* the ways /^\s*([MARDU]{1,2}|\?\?)\s{1,2}(.+)$/ can cut a line after its leading
\* white space, in the order the backtracking matcher tries them: the first
\* alternative with greedy {1,2}, then the second; \s{1,2} greedy
RegexAttempts ==
    << [alt |-> "MARDU", tok |-> 2, sep |-> 2], [alt |-> "MARDU", tok |-> 2, sep |-> 1],
       [alt |-> "MARDU", tok |-> 1, sep |-> 2], [alt |-> "MARDU", tok |-> 1, sep |-> 1],
       [alt |-> "??",    tok |-> 2, sep |-> 2], [alt |-> "??",    tok |-> 2, sep |-> 1] >>

\* whether the line is: ws white space, a status token of a.tok characters,
\* a.sep white space, and at least one more character, none a line terminator
AttemptMatches(line, ws, a) ==
    /\ ws + a.tok + a.sep + 1 <= Len(line)
    /\ \A i \in 1..ws : IsSpace(line[i])
    /\ IF a.alt = "MARDU"
       THEN \A i \in (ws + 1)..(ws + a.tok) : line[i] \in StatusLetters
       ELSE SubSeq(line, ws + 1, ws + a.tok) = Untracked
    /\ \A i \in (ws + a.tok + 1)..(ws + a.tok + a.sep) : IsSpace(line[i])
    /\ \A i \in (ws + a.tok + a.sep + 1)..Len(line) : IsDot(line[i])

\* the match of /^([MARDU]{1,2}|\?\?)\s{1,2}(.+)$/, without the leading \s*
StatusRegexMatchNoIndent(line) ==
    LET hits == {k \in 1..Len(RegexAttempts) : AttemptMatches(line, 0, RegexAttempts[k])}
    IN  IF hits = {}
        THEN [matched |-> FALSE, statusCode |-> <<>>, filePath |-> <<>>]
        ELSE LET a == RegexAttempts[CHOOSE h \in hits : \A g \in hits : h <= g]
             IN  [matched    |-> TRUE,
                  statusCode |-> SubSeq(line, 1, a.tok),
                  filePath   |-> SubSeq(line, a.tok + a.sep + 1, Len(line))]

\* line.match(statusRegex): [matched, statusCode, filePath] of the first attempt
\* that matches. The greedy leading \s* takes all the leading white space; giving
\* some of it back never matches, as no token starts with white space.
StatusRegexMatch(line) ==
    LET ws   == Len(line) - Len(TrimStart(line))
        hits == {k \in 1..Len(RegexAttempts) : AttemptMatches(line, ws, RegexAttempts[k])}
    IN  IF hits = {}
        THEN [matched |-> FALSE, statusCode |-> <<>>, filePath |-> <<>>]
        ELSE LET a == RegexAttempts[CHOOSE h \in hits : \A g \in hits : h <= g]
             IN  [matched    |-> TRUE,
                  statusCode |-> SubSeq(line, ws + 1, ws + a.tok),
                  filePath   |-> SubSeq(line, ws + a.tok + a.sep + 1, Len(line))]

\* handleRenamedFilePath: the second piece of the field split at "->", trimmed
handleRenamedFilePath(filePath) ==
    IF Includes(filePath, Arrow) THEN Trim(Split(filePath, Arrow)[2]) ELSE filePath

\* the letters' values added instead of OR-ed
RECURSIVE SumFileState(_, _)
SumFileState(acc, chars) ==
    IF chars = <<>> THEN acc
    ELSE SumFileState(
             IF Head(chars) \in DOMAIN FileState THEN acc + FileState[Head(chars)] ELSE acc,
             Tail(chars))

getFileStateSummed(statusCode) == SumFileState(0, statusCode)

\* the reduce of getFileState, from accumulator acc
RECURSIVE ReduceFileState(_, _)
ReduceFileState(acc, chars) ==
    IF chars = <<>> THEN acc
    ELSE ReduceFileState(
             IF Head(chars) \in DOMAIN FileState THEN BitOr(acc, FileState[Head(chars)]) ELSE acc,
             Tail(chars))

getFileState(statusCode) == ReduceFileState(0, statusCode)

\* line 23: statusOutput.split('\n')
SplitLines(text) == Split(text, <<NL>>)

----------------------------------------------------------------------------
(* gitCommands.ts *)

\* what `git diff <path>` can do: fail (execAsync rejects), or end with stdout and stderr
GitDiffOutcomes ==
    { [ok |-> FALSE, stdout |-> "", stderr |-> ""],
      [ok |-> TRUE,  stdout |-> "", stderr |-> ""],
      [ok |-> TRUE,  stdout |-> "diff content", stderr |-> ""],
      [ok |-> TRUE,  stdout |-> "diff content", stderr |-> "warning: LF will be replaced by CRLF"] }

\* undefined, and a string value (a string is the sequence of the parts concatenated)
Undefined == [defined |-> FALSE, text |-> <<>>]
Str(parts) == [defined |-> TRUE, text |-> parts]

\* getFileDiff(filePath)'s return value when `git diff filePath` ends with outcome o
getFileDiff(filePath, o) ==
    IF ~o.ok THEN Undefined
    ELSE IF o.stderr # "" THEN Str(<<o.stdout, "\n[Git Warning/Error]:\n", o.stderr>>)
    ELSE Str(<<o.stdout>>)

----------------------------------------------------------------------------
(* commitGenerator.ts: validateAIOutput *)

Range(s) == {s[i] : i \in 1..Len(s)}

\* Array.prototype.includes
SeqIncludes(s, x) == \E i \in 1..Len(s) : s[i] = x

\* Array.prototype.indexOf, counted from 1; 0 when x is not in s
IndexOf(s, x) ==
    IF SeqIncludes(s, x)
    THEN CHOOSE i \in 1..Len(s) : s[i] = x /\ \A j \in 1..(i - 1) : s[j] # x
    ELSE 0

\* [...new Set(s)]: the elements of s in the order of their first occurrence
RECURSIVE NewSet(_)
NewSet(s) ==
    IF s = <<>> THEN <<>>
    ELSE LET front == NewSet(SubSeq(s, 1, Len(s) - 1))
         IN  IF SeqIncludes(front, s[Len(s)]) THEN front ELSE Append(front, s[Len(s)])

\* parsedJson.flatMap(commit => commit.changes)
RECURSIVE FlatMapChanges(_)
FlatMapChanges(parsedJson) ==
    IF parsedJson = <<>> THEN <<>>
    ELSE Head(parsedJson).changes \o FlatMapChanges(Tail(parsedJson))

\* the entries of aiFilePaths, from index i on, that equal the entry before them
RECURSIVE RepeatedAdjacentFrom(_, _)
RepeatedAdjacentFrom(aiFilePaths, i) ==
    IF i > Len(aiFilePaths) THEN <<>>
    ELSE (IF i > 1 /\ aiFilePaths[i - 1] = aiFilePaths[i] THEN <<aiFilePaths[i]>> ELSE <<>>)
         \o RepeatedAdjacentFrom(aiFilePaths, i + 1)

\* line 163: aiFilePaths.filter((file, index) => aiFilePaths.indexOf(file) !== index),
\* from index i on
RECURSIVE RepeatedFrom(_, _)
RepeatedFrom(aiFilePaths, i) ==
    IF i > Len(aiFilePaths) THEN <<>>
    ELSE (IF IndexOf(aiFilePaths, aiFilePaths[i]) # i THEN <<aiFilePaths[i]>> ELSE <<>>)
         \o RepeatedFrom(aiFilePaths, i + 1)

MissingEntriesNegationDropped(allFilePaths, aiFilePaths) ==
    SelectSeq(allFilePaths, LAMBDA file : SeqIncludes(aiFilePaths, file))

\* line 169: allFilePaths.filter(file => !aiFilePaths.includes(file))
MissingEntries(allFilePaths, aiFilePaths) ==
    SelectSeq(allFilePaths, LAMBDA file : ~SeqIncludes(aiFilePaths, file))

\* line 175: aiFilePaths.filter(file => !allFilePaths.includes(file))
InvalidEntries(allFilePaths, aiFilePaths) ==
    SelectSeq(aiFilePaths, LAMBDA file : ~SeqIncludes(allFilePaths, file))

IsValidIgnoringMissing(duplicateFiles, missingFiles, invalidFiles) ==
    Len(duplicateFiles) = 0 /\ Len(invalidFiles) = 0

\* line 180
IsValid(duplicateFiles, missingFiles, invalidFiles) ==
    Len(duplicateFiles) = 0 /\ Len(missingFiles) = 0 /\ Len(invalidFiles) = 0

\* lines 155-160: the result before validation
NoValidationResult ==
    [valid |-> TRUE, duplicateFiles |-> <<>>, missingFiles |-> <<>>, invalidFiles |-> <<>>]

\* lines 151-183
validateAIOutput(parsedJson, changes) ==
    LET allFilePaths   == [i \in 1..Len(changes) |-> changes[i].path]
        aiFilePaths    == FlatMapChanges(parsedJson)
        duplicateFiles == RepeatedFrom(aiFilePaths, 1)
        missingFiles   == MissingEntries(allFilePaths, aiFilePaths)
        invalidFiles   == InvalidEntries(allFilePaths, aiFilePaths)
    IN  [valid          |-> IsValid(duplicateFiles, missingFiles, invalidFiles),
         duplicateFiles |-> IF Len(duplicateFiles) > 0 THEN NewSet(duplicateFiles) ELSE <<>>,
         missingFiles   |-> IF Len(missingFiles) > 0 THEN missingFiles ELSE <<>>,
         invalidFiles   |-> IF Len(invalidFiles) > 0 THEN NewSet(invalidFiles) ELSE <<>>]

----------------------------------------------------------------------------
(* commitChanges (commitGenerator.ts lines 320-354): the repair of the groups *)

\* the filter of one group's changes when a path is marked only once its group is done
FilterDuplicatesMarkingAfterGroup(changes, duplicateFiles, committedFiles) ==
    [changes        |-> SelectSeq(changes, LAMBDA filePath :
                            \/ ~SeqIncludes(duplicateFiles, filePath)
                            \/ filePath \notin committedFiles),
     committedFiles |-> committedFiles \cup (Range(changes) \cap Range(duplicateFiles))]

\* lines 328-339: the filter of one group's changes, with the set committedFiles
\* it reads and extends; [changes, committedFiles]
RECURSIVE FilterDuplicates(_, _, _)
FilterDuplicates(changes, duplicateFiles, committedFiles) ==
    IF changes = <<>> THEN [changes |-> <<>>, committedFiles |-> committedFiles]
    ELSE LET filePath == Head(changes)
             keep == \/ ~SeqIncludes(duplicateFiles, filePath)
                     \/ filePath \notin committedFiles
             rest == FilterDuplicates(Tail(changes), duplicateFiles,
                         IF SeqIncludes(duplicateFiles, filePath)
                         THEN committedFiles \cup {filePath}
                         ELSE committedFiles)
         IN  [changes        |-> (IF keep THEN <<filePath>> ELSE <<>>) \o rest.changes,
              committedFiles |-> rest.committedFiles]

\* lines 327-340: the loop over the groups from index i down to the first
RECURSIVE RemoveDuplicatesFrom(_, _, _, _)
RemoveDuplicatesFrom(filesToCommit, i, duplicateFiles, committedFiles) ==
    IF i = 0 THEN filesToCommit
    ELSE LET r == FilterDuplicates(filesToCommit[i].changes, duplicateFiles, committedFiles)
         IN  RemoveDuplicatesFrom([filesToCommit EXCEPT ![i].changes = r.changes],
                                  i - 1, duplicateFiles, r.committedFiles)

\* the same loop run from group i up to the last
RECURSIVE RemoveDuplicatesUpFrom(_, _, _, _)
RemoveDuplicatesUpFrom(filesToCommit, i, duplicateFiles, committedFiles) ==
    IF i > Len(filesToCommit) THEN filesToCommit
    ELSE LET r == FilterDuplicates(filesToCommit[i].changes, duplicateFiles, committedFiles)
         IN  RemoveDuplicatesUpFrom([filesToCommit EXCEPT ![i].changes = r.changes],
                                    i + 1, duplicateFiles, r.committedFiles)

RemoveDuplicatesKeepingEarliest(filesToCommit, duplicateFiles) ==
    IF Len(duplicateFiles) > 0
    THEN RemoveDuplicatesUpFrom(filesToCommit, 1, duplicateFiles, {})
    ELSE filesToCommit

\* lines 324-341
RemoveDuplicates(filesToCommit, duplicateFiles) ==
    IF Len(duplicateFiles) > 0
    THEN RemoveDuplicatesFrom(filesToCommit, Len(filesToCommit), duplicateFiles, {})
    ELSE filesToCommit

RemoveFirstInvalid(filesToCommit, invalidFiles) ==
    IF Len(invalidFiles) > 0
    THEN [i \in 1..Len(filesToCommit) |->
            [filesToCommit[i] EXCEPT
                !.changes = SelectSeq(@, LAMBDA filePath : filePath # invalidFiles[1])]]
    ELSE filesToCommit

\* the invalid paths removed, and with them the groups left without a path
RemoveInvalidAndEmptyGroups(filesToCommit, invalidFiles) ==
    IF Len(invalidFiles) > 0
    THEN SelectSeq(
            [i \in 1..Len(filesToCommit) |->
                [filesToCommit[i] EXCEPT
                    !.changes = SelectSeq(@, LAMBDA filePath : filePath \notin Range(invalidFiles))]],
            LAMBDA commit : commit.changes # <<>>)
    ELSE filesToCommit

\* lines 343-348
RemoveInvalid(filesToCommit, invalidFiles) ==
    IF Len(invalidFiles) > 0
    THEN [i \in 1..Len(filesToCommit) |->
            [filesToCommit[i] EXCEPT
                !.changes = SelectSeq(@, LAMBDA filePath : filePath \notin Range(invalidFiles))]]
    ELSE filesToCommit

\* lines 323-349: the whole repair
Repair(filesToCommit, result) ==
    IF ~result.valid
    THEN RemoveInvalid(RemoveDuplicates(filesToCommit, result.duplicateFiles), result.invalidFiles)
    ELSE filesToCommit

----------------------------------------------------------------------------
(* parseGitStatusOutput: one action per iteration of the loop over statusLines *)

Line == statusLines[lineNo]

InLoop == pc = "parse" /\ lineNo <= Len(statusLines)

Logged(level, message, detail) == log' = Append(log, <<level, message, detail>>)

IsUnmergedOnBothSides(statusCode) == statusCode = <<"U", "U">>

\* line 39: statusCode.includes('U')
IsUnmerged(statusCode) == Includes(statusCode, <<"U">>)

NeedsDiffUnlessDeletedBit(fileState) == fileState < FileState["D"]

\* line 49: the condition under which the diff is fetched
NeedsDiff(fileState) == fileState # FileState["D"]

\* lines 50-54: the record pushed, its diff field set only when diff is not undefined
NewFileChange(trimmedFilePath, fileState, diff) ==
    IF diff.defined
    THEN [path |-> trimmedFilePath, state |-> fileState, diff |-> diff.text]
    ELSE [path |-> trimmedFilePath, state |-> fileState]

\* lines 27-29: a line that is empty once trimmed is skipped
SkipBlankLine ==
    /\ InLoop
    /\ Trim(Line) = <<>>
    /\ lineNo' = lineNo + 1
    /\ UNCHANGED <<entry, pc, statusOutput, statusLines, fileChanges, origin, diffLookups, log, exitCode>>
    /\ UNCHANGED commitVars

\* lines 31-60, for a line that is not blank: the branch taken for the match
\* (lines 58-60) a line the regular expression does not match is reported and skipped
UnparseableLine ==
    /\ InLoop
    /\ Trim(Line) # <<>>
    /\ ~StatusRegexMatch(Line).matched
    /\ Logged("error", "Unable to parse Git status line:", Line)
    /\ lineNo' = lineNo + 1
    /\ UNCHANGED <<entry, pc, statusOutput, statusLines, fileChanges, origin, diffLookups, exitCode>>
    /\ UNCHANGED commitVars

\* lines 35-38: an untracked file is warned about and skipped
UntrackedLine ==
    /\ InLoop
    /\ Trim(Line) # <<>>
    /\ LET match == StatusRegexMatch(Line)
       IN  /\ match.matched
           /\ match.statusCode = Untracked
           /\ Logged("warning", "Untracked file:", match.filePath)
    /\ lineNo' = lineNo + 1
    /\ UNCHANGED <<entry, pc, statusOutput, statusLines, fileChanges, origin, diffLookups, exitCode>>
    /\ UNCHANGED commitVars

\* lines 39-43: an unmerged file ends the process with code 1
UnmergedLine ==
    /\ InLoop
    /\ Trim(Line) # <<>>
    /\ LET match == StatusRegexMatch(Line)
       IN  /\ match.matched
           /\ match.statusCode # Untracked
           /\ IsUnmerged(match.statusCode)
           /\ log' = log \o << <<"warning", "Unmerged file:", match.filePath>>,
                               <<"warning", "Please resolve the conflict before running the program.", <<>> >> >>
    /\ pc' = "exit"
    /\ exitCode' = 1
    /\ UNCHANGED <<entry, statusOutput, statusLines, lineNo, fileChanges, origin, diffLookups>>
    /\ UNCHANGED commitVars

\* lines 45-56: a changed file; its diff is awaited unless it is deleted, and the
\* record is pushed
ChangedLine ==
    /\ InLoop
    /\ Trim(Line) # <<>>
    /\ LET match == StatusRegexMatch(Line)
       IN  /\ match.matched
           /\ match.statusCode # Untracked
           /\ ~IsUnmerged(match.statusCode)
           /\ LET trimmedFilePath == Trim(match.filePath)
                  fullFilePath    == handleRenamedFilePath(trimmedFilePath)
                  fileState       == getFileState(match.statusCode)
              IN  IF NeedsDiff(fileState)
                  THEN \E o \in GitDiffOutcomes :
                         /\ diffLookups' = Append(diffLookups,
                                [line |-> lineNo, path |-> fullFilePath,
                                 result |-> getFileDiff(fullFilePath, o)])
                         /\ IF o.ok
                            THEN UNCHANGED log
                            ELSE Logged("error", "Error while getting the diff for file", fullFilePath)
                         /\ fileChanges' = Append(fileChanges,
                                NewFileChange(trimmedFilePath, fileState, getFileDiff(fullFilePath, o)))
                  ELSE /\ fileChanges' = Append(fileChanges,
                                NewFileChange(trimmedFilePath, fileState, Undefined))
                       /\ UNCHANGED <<diffLookups, log>>
    /\ origin' = Append(origin, lineNo)
    /\ lineNo' = lineNo + 1
    /\ UNCHANGED <<entry, pc, statusOutput, statusLines, exitCode>>
    /\ UNCHANGED commitVars

\* line 63: the loop is over and fileChanges is returned
ParseReturn ==
    /\ pc = "parse"
    /\ lineNo > Len(statusLines)
    /\ pc' = IF entry = "parseGitStatusOutput" THEN "returned" ELSE "fileChanges"
    /\ UNCHANGED <<entry, statusOutput, statusLines, lineNo, fileChanges, origin, diffLookups, log, exitCode>>
    /\ UNCHANGED commitVars

NextParser ==
    \/ SkipBlankLine
    \/ UnparseableLine
    \/ UntrackedLine
    \/ UnmergedLine
    \/ ChangedLine
    \/ ParseReturn

----------------------------------------------------------------------------
(* Inputs of the parser *)

\* status lines: every shape of line the parser tells apart
ParserLines ==
    { <<"M", " ", " ", "a">>,                                \* M  a
      <<"A", " ", " ", "b">>,                                \* A  b
      <<"D", " ", " ", "c">>,                                \* D  c
      <<"R", " ", " ", "a", " ", "-", ">", " ", "b">>,       \* R  a -> b
      <<"D", "D", " ", "c">>,                                \* DD c
      <<"M", "D", " ", "a">>,                                \* MD a
      <<"A", "D", " ", "b">>,                                \* AD b
      <<"M", "M", " ", "a">>,                                \* MM a
      <<"U", "U", " ", "a">>,                                \* UU a
      <<"A", "U", " ", "b">>,                                \* AU b
      <<"D", "U", " ", "c">>,                                \* DU c
      <<"?", "?", " ", "d">>,                                \* ?? d
      <<"X", " ", " ", "e">>,                                \* X  e
      <<>>,                                                  \* empty line
      <<" ", " ">>,                                          \* blank line
      <<" ", "M", " ", "a">>,                                \*  M a
      <<"M", " ", " ", " ", " ">> }                          \* M and four spaces

\* the status texts of at most MaxLines lines
ParserTexts ==
    { JoinLines(ls) : ls \in UNION { [1..n -> ParserLines] : n \in 0..MaxLines } }

\* parseGitStatusOutput(statusOutput) called on any text, as its tests do
InitParser ==
    /\ entry = "parseGitStatusOutput"
    /\ pc = "parse"
    /\ statusOutput \in ParserTexts
    /\ statusLines = SplitLines(statusOutput)
    /\ lineNo = 1
    /\ fileChanges = <<>>
    /\ origin = <<>>
    /\ diffLookups = <<>>
    /\ log = <<>>
    /\ exitCode = -1
    /\ aiCommits = <<>>
    /\ proposal = <<>>
    /\ validationResult = NoValidationResult
    /\ commitNo = 0

SpecParser == InitParser /\ [][NextParser]_vars

----------------------------------------------------------------------------
(* commitGenerator.ts: the reply of the language model *)

\* a JavaScript value with its type
JsString(v) == [type |-> "string", value |-> v]
JsArray(v)  == [type |-> "array", value |-> v]
JsOther(t)  == [type |-> t, value |-> <<>>]

\* a group's title: a string, kept as its parts
Title(i) == <<"commit ", i>>

Group(title, changes) == [title |-> title, changes |-> changes]

\* lines 88-90
isValidSingleCommit(commit) == commit.title.type = "string" /\ commit.changes.type = "array"

\* only Array.isArray(parsedData.commits), the commits themselves unchecked
validateAICommitArrayOnly(parsedData) == parsedData.commits.type = "array"

\* lines 93-100
validateAICommit(parsedData) ==
    /\ parsedData.commits.type = "array"
    /\ \A i \in 1..Len(parsedData.commits.value) : isValidSingleCommit(parsedData.commits.value[i])

\* lines 124-127: parsedData.commits.map(...)
MapCommits(parsedData) ==
    [i \in 1..Len(parsedData.commits.value) |->
        Group(parsedData.commits.value[i].title.value, parsedData.commits.value[i].changes.value)]

\* { commits: [...] } with well-formed groups
JsCommits(groups) ==
    [commits |-> JsArray([i \in 1..Len(groups) |->
        [title |-> JsString(groups[i].title), changes |-> JsArray(groups[i].changes)]])]

PathA == <<"a">>
PathB == <<"b">>
PathC == <<"c">>
PathZ == <<"z">>

\* the groupings the model is taken to propose in a run of main
MainProposals ==
    { << Group(Title(1), <<PathA, PathB>>), Group(Title(2), <<PathB, PathC>>) >>,
      << Group(Title(1), <<PathA>>), Group(Title(2), <<PathB, PathC>>) >>,
      << Group(Title(1), <<PathA, PathZ>>), Group(Title(2), <<PathZ, PathB>>) >>,
      << Group(Title(1), <<PathA, PathA>>), Group(Title(2), <<PathB>>) >>,
      << Group(Title(1), <<>>), Group(Title(2), <<PathA>>) >>,
      << >> }

\* what client.chat.completions.create can give: a rejected request, a completion
\* without content, content that is not JSON, and content that is JSON
AIReplies ==
    { [kind |-> "reject", parsedData |-> [commits |-> JsOther("undefined")]],
      [kind |-> "empty",  parsedData |-> [commits |-> JsOther("undefined")]],
      [kind |-> "text",   parsedData |-> [commits |-> JsOther("undefined")]],
      [kind |-> "json",   parsedData |-> [commits |-> JsOther("undefined")]],
      [kind |-> "json",   parsedData |-> [commits |-> JsOther("object")]],
      [kind |-> "json",   parsedData |-> [commits |-> JsArray(<<
          [title |-> JsOther("number"), changes |-> JsArray(<<PathA>>)] >>)]],
      [kind |-> "json",   parsedData |-> [commits |-> JsArray(<<
          [title |-> JsString(Title(1)), changes |-> JsArray(<<PathA>>)],
          [title |-> JsString(Title(2)), changes |-> JsOther("string")] >>)]] }
    \cup { [kind |-> "json", parsedData |-> JsCommits(g)] : g \in MainProposals }

----------------------------------------------------------------------------
(* main (commitGenerator.ts lines 385-434) and the functions it calls *)

\* what `git status --porcelain` writes to stdout in the runs of main considered
GitStatusStdouts ==
    { <<>>,
      <<"M", " ", " ", "a", NL, "A", " ", " ", "b", NL, "D", " ", " ", "c", NL>>,
      <<" ", "M", " ", "a", NL, "?", "?", " ", "d", NL>>,
      <<"R", " ", " ", "a", " ", "-", ">", " ", "b", NL>>,
      <<"M", " ", " ", "a", NL, "U", "U", " ", "b", NL, "A", " ", " ", "c", NL>>,
      <<"A", " ", " ", "b", NL, "A", "U", " ", "a", NL>>,
      <<"D", "U", " ", "c", NL>>,
      <<"X", " ", " ", "e", NL, "A", " ", " ", "b", NL>> }

\* lines 390-392: checkGitEnvironment; main returns when it is false
CheckGitEnvironment ==
    /\ pc = "main"
    /\ \E ok \in BOOLEAN :
         IF ok
         THEN pc' = "status" /\ UNCHANGED log
         ELSE pc' = "done" /\ Logged("error", "Git is not available or not a repository", <<>>)
    /\ UNCHANGED <<entry, exitCode>>
    /\ UNCHANGED parserVars
    /\ UNCHANGED commitVars

\* getGitFileChanges (gitStatusParser.ts 9-18) calling getGitStatusOutput
\* (gitCommands.ts 49-56): a rejected command is caught and gives [], output on
\* stderr gives '', and otherwise stdout is trimmed and parsed
GetGitStatusOutput ==
    /\ pc = "status"
    /\ \/ /\ Logged("error", "Error while getting Git status:", <<>>)
          /\ pc' = "fileChanges"
          /\ UNCHANGED <<statusOutput, statusLines, lineNo>>
       \/ /\ Logged("error", "Git command error:", <<>>)
          /\ statusOutput' = <<>>
          /\ statusLines' = SplitLines(<<>>)
          /\ lineNo' = 1
          /\ pc' = "parse"
       \/ \E stdout \in GitStatusStdouts :
            /\ statusOutput' = Trim(stdout)
            /\ statusLines' = SplitLines(Trim(stdout))
            /\ lineNo' = 1
            /\ pc' = "parse"
            /\ UNCHANGED log
    /\ UNCHANGED <<entry, exitCode, fileChanges, origin, diffLookups>>
    /\ UNCHANGED commitVars

\* lines 395-402: with no change main returns; else the recent titles are read
CheckFileChanges ==
    /\ pc = "fileChanges"
    /\ IF Len(fileChanges) = 0
       THEN pc' = "done" /\ Logged("success", "No file changes detected.", <<>>)
       ELSE pc' = "selectModel" /\ Logged("call", "git log", <<>>)
    /\ UNCHANGED <<entry, exitCode>>
    /\ UNCHANGED parserVars
    /\ UNCHANGED commitVars

\* selectModel (lines 259-292): no model, or an incomplete one, ends the process
SelectModel ==
    /\ pc = "selectModel"
    /\ \E configured \in BOOLEAN :
         IF configured
         THEN pc' = "generate" /\ UNCHANGED <<log, exitCode>>
         ELSE /\ pc' = "exit"
              /\ exitCode' = 1
              /\ Logged("error", "No usable AI model configuration.", <<>>)
    /\ UNCHANGED entry
    /\ UNCHANGED parserVars
    /\ UNCHANGED commitVars

\* getAICommits (lines 102-149): the groups of a well-formed reply are returned,
\* and anything else ends the process with code 1
GetAICommits ==
    /\ pc = "generate"
    /\ \E reply \in AIReplies :
         IF reply.kind = "json" /\ reply.parsedData.commits.type # "undefined"
            /\ validateAICommit(reply.parsedData)
         THEN /\ aiCommits' = MapCommits(reply.parsedData)
              /\ proposal' = MapCommits(reply.parsedData)
              /\ log' = log \o << <<"call", "chat.completions.create", reply>>,
                                  <<"info", "1. Generating AI commits: ok", <<>> >> >>
              /\ pc' = "validate"
              /\ UNCHANGED exitCode
         ELSE /\ log' = log \o << <<"call", "chat.completions.create", reply>>,
                                  <<"error", "getAICommits", reply.kind>> >>
              /\ pc' = "exit"
              /\ exitCode' = 1
              /\ UNCHANGED <<aiCommits, proposal>>
    /\ UNCHANGED <<entry, validationResult, commitNo>>
    /\ UNCHANGED parserVars

\* lines 418-430: validateAIOutput, displayCommitMessages and, when the result is
\* not valid, displayValidationWarnings
ValidateAndDisplay ==
    /\ pc = "validate"
    /\ validationResult' = validateAIOutput(aiCommits, fileChanges)
    /\ log' = log
            \o << <<"info", " AI-Generated Commit Messages:", aiCommits>> >>
            \o (IF validationResult'.valid THEN <<>>
                ELSE << <<"warning", "Validation failed:", validationResult'>> >>)
    /\ pc' = "confirm"
    /\ UNCHANGED <<entry, exitCode, aiCommits, proposal, commitNo>>
    /\ UNCHANGED parserVars

\* the commit goes on whatever the answer
AfterAnswerIgnored(answer) == "repairDuplicates"

\* line 307: commitChanges is called on yes, and askToContinue returns on no
AfterAnswer(answer) == IF answer THEN "repairDuplicates" ELSE "done"

\* askToContinue (lines 294-318) up to the call of commitChanges
AskToContinue ==
    /\ pc = "confirm"
    /\ \E answer \in BOOLEAN :
         /\ log' = log
                \o << <<"call", "inquirer.prompt",
                        IF validationResult.valid
                        THEN "Do you want to continue with the commit?"
                        ELSE "Validation failed. Do you still want to continue with the commit?">> >>
                \o (IF answer
                    THEN << <<"info", "4. Proceeding with the commit...", <<>> >> >>
                    ELSE << <<"warning", "Commit has been canceled.", <<>> >> >>)
         /\ pc' = AfterAnswer(answer)
    /\ UNCHANGED <<entry, exitCode>>
    /\ UNCHANGED parserVars
    /\ UNCHANGED commitVars

\* commitChanges lines 321-341: the duplicate branch
RepairDuplicates ==
    /\ pc = "repairDuplicates"
    /\ aiCommits' = IF ~validationResult.valid
                    THEN RemoveDuplicates(aiCommits, validationResult.duplicateFiles)
                    ELSE aiCommits
    /\ pc' = "repairInvalid"
    /\ UNCHANGED <<entry, log, exitCode, proposal, validationResult, commitNo>>
    /\ UNCHANGED parserVars

\* commitChanges lines 343-349: the invalid branch
RepairInvalid ==
    /\ pc = "repairInvalid"
    /\ aiCommits' = IF ~validationResult.valid
                    THEN RemoveInvalid(aiCommits, validationResult.invalidFiles)
                    ELSE aiCommits
    /\ commitNo' = 1
    /\ pc' = "commit"
    /\ UNCHANGED <<entry, log, exitCode, proposal, validationResult>>
    /\ UNCHANGED parserVars

\* git is run for every list of files, the empty one too
RunsGitAlways(files) == TRUE

\* gitCommands.ts line 104: git commit is run only for a non-empty list of files
RunsGit(files) == Len(files) > 0

\* commitChanges lines 351-352, one iteration: commitFiles is called for the
\* group the loop is at, and awaited
CommitGroup ==
    /\ pc = "commit"
    /\ commitNo <= Len(aiCommits)
    /\ LET title == aiCommits[commitNo].title
           files == aiCommits[commitNo].changes
       IN  log' = Append(log, <<"call", "commitFiles", [title |-> title, files |-> files]>>)
    /\ pc' = "commitFiles"
    /\ UNCHANGED <<entry, exitCode, aiCommits, proposal, validationResult, commitNo>>
    /\ UNCHANGED parserVars

\* commitFiles (gitCommands.ts 102-111) runs `git commit` unless files is empty,
\* catches and reports its failure, and returns; the loop goes to the next group
CommitFilesReturn ==
    /\ pc = "commitFiles"
    /\ LET title == aiCommits[commitNo].title
           files == aiCommits[commitNo].changes
           done  == <<"return", "commitFiles", [title |-> title, files |-> files]>>
       IN  IF RunsGit(files)
           THEN \E ok \in BOOLEAN :
                  log' = log
                      \o << <<"call", "git commit", [title |-> title, files |-> files, ok |-> ok]>> >>
                      \o (IF ok THEN <<>> ELSE << <<"error", "Error during commit:", title>> >>)
                      \o << done >>
           ELSE log' = Append(log, done)
    /\ commitNo' = commitNo + 1
    /\ pc' = "commit"
    /\ UNCHANGED <<entry, exitCode, aiCommits, proposal, validationResult>>
    /\ UNCHANGED parserVars

\* askToContinue lines 311-313: after commitChanges has returned
CommitCompleted ==
    /\ pc = "commit"
    /\ commitNo > Len(aiCommits)
    /\ Logged("info", "[OK] Commit completed successfully!", <<>>)
    /\ pc' = "done"
    /\ UNCHANGED <<entry, exitCode>>
    /\ UNCHANGED parserVars
    /\ UNCHANGED commitVars

NextGrouping ==
    \/ ValidateAndDisplay
    \/ AskToContinue
    \/ RepairDuplicates
    \/ RepairInvalid
    \/ CommitGroup
    \/ CommitFilesReturn
    \/ CommitCompleted

Next ==
    \/ CheckGitEnvironment
    \/ GetGitStatusOutput
    \/ NextParser
    \/ CheckFileChanges
    \/ SelectModel
    \/ GetAICommits
    \/ NextGrouping

\* a run of main
Init ==
    /\ entry = "main"
    /\ pc = "main"
    /\ statusOutput = <<>>
    /\ statusLines = <<>>
    /\ lineNo = 1
    /\ fileChanges = <<>>
    /\ origin = <<>>
    /\ diffLookups = <<>>
    /\ log = <<>>
    /\ exitCode = -1
    /\ aiCommits = <<>>
    /\ proposal = <<>>
    /\ validationResult = NoValidationResult
    /\ commitNo = 0

Spec == Init /\ [][Next]_vars

----------------------------------------------------------------------------
(* Inputs of the validator and of commitChanges *)

\* the paths the model is taken to use in its groups
AIPaths == {PathA, PathB, PathC}

\* a change list the parser gives for "M  a", "A  b", "D  c" ...
FullChanges ==
    << [path |-> PathA, state |-> FileState["M"], diff |-> <<"diff content">>],
       [path |-> PathB, state |-> FileState["A"]],
       [path |-> PathC, state |-> FileState["D"]] >>

\* ... and the one it gives for "R  a -> b", "D  c"
RenameChanges ==
    << [path |-> <<"a", " ", "-", ">", " ", "b">>, state |-> FileState["R"],
        diff |-> <<"diff content">>],
       [path |-> PathC, state |-> FileState["D"]] >>

\* the change lists: the non-empty prefixes of FullChanges, and RenameChanges
ChangeLists ==
    { SubSeq(FullChanges, 1, n) : n \in 1..Len(FullChanges) } \cup { RenameChanges }

\* the group lists got by cutting flat into k groups at the positions ends
CutIntoGroups(flat, k, ends) ==
    [i \in 1..k |->
        Group(Title(i), SubSeq(flat, (IF i = 1 THEN 0 ELSE ends[i - 1]) + 1, ends[i]))]

\* every list of at most MaxGroups groups holding at most MaxEntries paths of AIPaths
Proposals ==
    { <<>> } \cup
    UNION { UNION { { CutIntoGroups(flat, k, ends) :
                        ends \in { e \in [1..k -> 0..Len(flat)] :
                                     /\ e[k] = Len(flat)
                                     /\ \A i \in 1..(k - 1) : e[i] <= e[i + 1] } } :
                    k \in 1..MaxGroups } :
            flat \in UNION { [1..n -> AIPaths] : n \in 0..MaxEntries } }

\* main at line 418, with any change list and any well-formed proposal
InitGrouping ==
    /\ entry = "main"
    /\ pc = "validate"
    /\ statusOutput = <<>>
    /\ statusLines = <<>>
    /\ lineNo = 1
    /\ fileChanges \in ChangeLists
    /\ origin = <<>>
    /\ diffLookups = <<>>
    /\ log = <<>>
    /\ exitCode = -1
    /\ aiCommits \in Proposals
    /\ proposal = aiCommits
    /\ validationResult = NoValidationResult
    /\ commitNo = 0

SpecGrouping == InitGrouping /\ [][NextGrouping]_vars

----------------------------------------------------------------------------
(* The status-line pattern of the specification, section 4.1, stated on its own:
   optional leading white space, a token of one or two letters of M A R D U or
   the marker ??, one or two spaces, and a non-empty remainder, the file field *)

\* the number of white-space characters the line starts with
LeadingBlanks(line) ==
    CHOOSE n \in 0..Len(line) :
        /\ \A i \in 1..n : line[i] \in {" ", "\t"}
        /\ n < Len(line) => line[n + 1] \notin {" ", "\t"}

\* the tokens the line can be read with (none when it does not match the pattern)
PatternTokens(line) ==
    LET w == LeadingBlanks(line)
    IN  { SubSeq(line, w + 1, w + t) : t \in
            { t \in 1..2 :
                /\ w + t < Len(line)
                /\ \/ \A i \in (w + 1)..(w + t) : line[i] \in {"M", "A", "R", "D", "U"}
                   \/ SubSeq(line, w + 1, w + t) = <<"?", "?">>
                /\ line[w + t + 1] \in {" ", "\t"}
                /\ w + t + 1 < Len(line) } }

MatchesPattern(line) == PatternTokens(line) # {}

IsUntrackedLine(line) == <<"?", "?">> \in PatternTokens(line)

IsUnmergedLine(line) == \E t \in PatternTokens(line) : \E i \in 1..Len(t) : t[i] = "U"

\* the lines that are to give a record
RecordLines == {i \in 1..Len(statusLines) : MatchesPattern(statusLines[i]) /\ ~IsUntrackedLine(statusLines[i])}

UnmergedLines == {i \in 1..Len(statusLines) : IsUnmergedLine(statusLines[i])}

\* the getFileDiff calls made for line i
LookupsOf(i) == {j \in 1..Len(diffLookups) : diffLookups[j].line = i}

\* the calls of collaborator name recorded in the log
CallsOf(name) == {j \in 1..Len(log) : log[j][1] = "call" /\ log[j][2] = name}

EndsWith(s, t) == Len(t) <= Len(s) /\ SubSeq(s, Len(s) - Len(t) + 1, Len(s)) = t

\* the file field <old> -> <new>
RenameField(old, new) == old \o <<" ", "-", ">", " ">> \o new

----------------------------------------------------------------------------
(* Claims on the status parser *)

\* C1: for every status line whose file field is '<old> -> <new>', the record's
\* path is <new>, and the diff lookup of that line is for <new>.
C1_RenameRecordHasNewPath ==
    \A i \in 1..Len(fileChanges) : \A old \in AIPaths, new \in AIPaths :
        EndsWith(statusLines[origin[i]], <<" ">> \o RenameField(old, new))
        => /\ fileChanges[i].path = new
           /\ \A j \in LookupsOf(origin[i]) : diffLookups[j].path = new

\* C8: once the status text has a line with an unmerged token, the parser never
\* goes past the first such line: there the process exits with code 1, nothing is
\* returned, no diff is looked up for that line or a later one, and the model is
\* not called, the user not asked and nothing committed.
C8_UnmergedEndsTheRun ==
    UnmergedLines # {} =>
        LET u == CHOOSE i \in UnmergedLines : \A k \in UnmergedLines : i <= k
        IN  /\ pc \in {"parse", "exit"}
            /\ lineNo <= u
            /\ (pc = "parse" /\ lineNo = u) => ENABLED UnmergedLine
            /\ pc = "exit" => exitCode = 1 /\ lineNo = u
            /\ \A j \in 1..Len(diffLookups) : diffLookups[j].line < u
            /\ CallsOf("chat.completions.create") = {}
            /\ CallsOf("inquirer.prompt") = {}
            /\ CallsOf("commitFiles") = {}
            /\ CallsOf("git commit") = {}

\* a run that exited at an unmerged line after it had built a record
C8_Witness ==
    /\ pc = "exit"
    /\ exitCode = 1
    /\ UnmergedLines # {}
    /\ Len(fileChanges) >= 1
    /\ lineNo < Len(statusLines)

\* C9: with no unmerged token, the list returned has one record for each line
\* that matches the pattern and is not untracked, in line order; the other lines
\* give no record and do not end the parse (while parsing, the records are those
\* of the lines passed); a blank text gives the empty list.
C9_OneRecordPerChangedLine ==
    UnmergedLines = {} =>
        /\ pc # "exit"
        /\ \A i \in 1..Len(origin) : \A k \in 1..Len(origin) : i < k => origin[i] < origin[k]
        /\ Len(origin) = Len(fileChanges)
        /\ pc = "parse" =>
             {origin[i] : i \in 1..Len(origin)} = {k \in RecordLines : k < lineNo}
        /\ pc = "returned" =>
             /\ {origin[i] : i \in 1..Len(origin)} = RecordLines
             /\ Trim(statusOutput) = <<>> => fileChanges = <<>>

\* a text whose first line does not match and whose second gives the record
C9_Witness ==
    /\ pc = "returned"
    /\ Len(statusLines) = 2
    /\ statusLines[1] = <<"X", " ", " ", "e">>
    /\ origin = <<2>>
    /\ Len(fileChanges) = 1

----------------------------------------------------------------------------
(* Claims on the validator and the repair *)

\* the paths of the change list L
ChangePaths == {fileChanges[i].path : i \in 1..Len(fileChanges)}

\* the places <<group, index>> of a group list where path p stands
PlacesOf(groups, p) ==
    {gk \in UNION {{<<g, k>> : k \in 1..Len(groups[g].changes)} : g \in 1..Len(groups)} :
        groups[gk[1]].changes[gk[2]] = p}

\* the paths of a group list
PathsOf(groups) == UNION {Range(groups[g].changes) : g \in 1..Len(groups)}

NoRepeats(s) == \A i \in 1..Len(s) : \A j \in 1..Len(s) : s[i] = s[j] => i = j

Validated == pc \in {"confirm", "repairDuplicates", "repairInvalid", "commit", "commitFiles", "done"}

\* the user has answered yes
Confirmed == \E j \in 1..Len(log) : log[j] = <<"info", "4. Proceeding with the commit...", <<>> >>

\* the repair of commitChanges has run
Repaired == pc \in {"commit", "commitFiles"} \/ (pc = "done" /\ Confirmed)

\* the files arguments of the commitFiles calls so far, as a group list
CommitCalls ==
    LET RECURSIVE Collect(_)
        Collect(j) ==
            IF j = 0 THEN <<>>
            ELSE Collect(j - 1) \o
                 (IF log[j][1] = "call" /\ log[j][2] = "commitFiles"
                  THEN << [title |-> log[j][3].title, changes |-> log[j][3].files] >>
                  ELSE <<>>)
    IN  Collect(Len(log))

\* C2: every path passed to a commit-execution call is a path of L, and no path
\* is passed twice in the run, be it to two calls or to one.
C2_CommitsOnlyChangedPathsOnce ==
    \A p \in PathsOf(CommitCalls) :
        /\ p \in ChangePaths
        /\ Cardinality(PlacesOf(CommitCalls, p)) = 1

\* a run that committed two groups of a proposal with duplicate and invalid paths
C2_Witness ==
    /\ pc = "done"
    /\ validationResult.duplicateFiles # <<>>
    /\ validationResult.invalidFiles # <<>>
    /\ Len(CommitCalls) = 2
    /\ \A g \in 1..2 : CommitCalls[g].changes # <<>>

\* C3: duplicateFiles is the set of paths standing at two places or more of the
\* proposal, missingFiles the paths of L in no group, invalidFiles the proposed
\* paths that are no path of L; the first and the last list no path twice; valid
\* is true exactly when the three are empty.
C3_ValidationResultIsTheReference ==
    Validated =>
        /\ Range(validationResult.duplicateFiles)
             = {p \in PathsOf(proposal) : Cardinality(PlacesOf(proposal, p)) >= 2}
        /\ Range(validationResult.missingFiles) = ChangePaths \ PathsOf(proposal)
        /\ Range(validationResult.invalidFiles) = PathsOf(proposal) \ ChangePaths
        /\ NoRepeats(validationResult.duplicateFiles)
        /\ NoRepeats(validationResult.invalidFiles)
        /\ validationResult.valid <=>
             /\ validationResult.duplicateFiles = <<>>
             /\ validationResult.missingFiles = <<>>
             /\ validationResult.invalidFiles = <<>>

\* a result with a duplicate, a missing and an invalid path
C3_Witness ==
    /\ pc = "confirm"
    /\ validationResult.duplicateFiles # <<>>
    /\ validationResult.missingFiles # <<>>
    /\ validationResult.invalidFiles # <<>>

\* C4: a proposal found valid names every path of L once and no other path.
C4_ValidIsAnExactPartition ==
    (Validated /\ validationResult.valid) =>
        /\ PathsOf(proposal) = ChangePaths
        /\ \A p \in PathsOf(proposal) : Cardinality(PlacesOf(proposal, p)) = 1

\* a valid proposal of two non-empty groups for three changes
C4_Witness ==
    /\ pc = "confirm"
    /\ validationResult.valid
    /\ Len(fileChanges) = 3
    /\ Len(proposal) = 2
    /\ \A g \in 1..2 : proposal[g].changes # <<>>

\* the last group of the proposal that holds p
LatestGroupOf(p) ==
    CHOOSE g \in 1..Len(proposal) :
        /\ p \in Range(proposal[g].changes)
        /\ \A h \in (g + 1)..Len(proposal) : p \notin Range(proposal[h].changes)

\* p stands once in groups, in the group that held it last in the proposal
KeptOnceInLatestGroup(groups, p) ==
    /\ Cardinality(PlacesOf(groups, p)) = 1
    /\ \A gk \in PlacesOf(groups, p) : gk[1] = LatestGroupOf(p)

ExampleProposal ==
    << Group(Title(1), <<PathA, PathB>>), Group(Title(2), <<PathB, PathC>>) >>

ExampleRepaired ==
    << Group(Title(1), <<PathA>>), Group(Title(2), <<PathB, PathC>>) >>

\* C5 as claimed: after the repair every path of duplicateFiles stands once, in
\* the latest group that held it.
C5_EveryDuplicateKeptOnce ==
    Repaired =>
        \A p \in Range(validationResult.duplicateFiles) : KeptOnceInLatestGroup(aiCommits, p)

\* C5 as amended: that holds after the duplicate branch, and after the whole
\* repair for the duplicates that are paths of L; a duplicate that is also
\* invalid is left in no group. The example of the claim gives [{A:[f1]},{B:[f2,f3]}].
C5_DuplicateKeptOnceUnlessInvalid ==
    /\ pc = "repairInvalid" =>
         \A p \in Range(validationResult.duplicateFiles) : KeptOnceInLatestGroup(aiCommits, p)
    /\ Repaired =>
         \A p \in Range(validationResult.duplicateFiles) :
            IF p \in Range(validationResult.invalidFiles)
            THEN PlacesOf(aiCommits, p) = {}
            ELSE KeptOnceInLatestGroup(aiCommits, p)
    /\ (Repaired /\ proposal = ExampleProposal /\ fileChanges = FullChanges) =>
         aiCommits = ExampleRepaired

\* the example of the claim, repaired
C5_Witness ==
    /\ pc = "commit"
    /\ fileChanges = FullChanges
    /\ proposal = ExampleProposal
    /\ validationResult.duplicateFiles = <<PathB>>
    /\ aiCommits = ExampleRepaired

\* C6: the repair of the repaired groups, with the validation of those groups,
\* changes nothing.
C6_RepairIsIdempotent ==
    Repaired =>
        Repair(aiCommits, validateAIOutput(aiCommits, fileChanges)) = aiCommits

\* groups the repair has changed and whose fresh validation still fails, on
\* missing files
C6_Witness ==
    /\ pc = "commit"
    /\ aiCommits # proposal
    /\ validationResult.invalidFiles # <<>>
    /\ validationResult.duplicateFiles # <<>>
    /\ ~validateAIOutput(aiCommits, fileChanges).valid

\* C7: the repair adds no path to a group, so the missing files are in no group
\* after it and in no commit-execution call; the groups are committed all the same.
C7_MissingFilesStayOut ==
    /\ \A g \in 1..Len(aiCommits) : Range(aiCommits[g].changes) \subseteq Range(proposal[g].changes)
    /\ Validated =>
         \A p \in Range(validationResult.missingFiles) :
            /\ Repaired => p \notin PathsOf(aiCommits)
            /\ p \notin PathsOf(CommitCalls)
    /\ (pc = "commit" /\ commitNo <= Len(aiCommits)) => Len(CommitCalls) = commitNo - 1
    /\ pc = "commitFiles" => Len(CommitCalls) = commitNo
    /\ (pc = "done" /\ Confirmed) => Len(CommitCalls) = Len(proposal)

\* a run with a missing file that has committed a group
C7_Witness ==
    /\ pc = "done"
    /\ validationResult.missingFiles # <<>>
    /\ \E j \in CallsOf("git commit") : log[j][3].ok

----------------------------------------------------------------------------
(* Claims on the records of the parser *)

\* C11: every record of the list the parser returns has a non-empty path.
C11_PathNeverEmpty ==
    pc = "returned" => \A i \in 1..Len(fileChanges) : fileChanges[i].path # <<>>

\* the value of a status letter in the table M=1, A=2, R=4, D=8, and 0 for any other
TableValue(ch) ==
    IF ch = "M" THEN 1 ELSE IF ch = "A" THEN 2 ELSE IF ch = "R" THEN 4 ELSE IF ch = "D" THEN 8 ELSE 0

\* the bits 1, 2, 4, 8 set in a number below 16
BitsOf(n) == {b \in {1, 2, 4, 8} : (n \div b) % 2 = 1}

\* the table values of the letters of a token, as a set of bits
TokenBits(token) == {TableValue(token[k]) : k \in 1..Len(token)} \ {0}

\* C12: the kind of every record is the bitwise OR of the table values of the
\* letters of its line's status token (so 'MM' gives 1 and 'MD' gives 9), and
\* is never zero.
C12_KindIsOrOfTokenLetters ==
    \A i \in 1..Len(fileChanges) :
        /\ fileChanges[i].state \in 1..15
        /\ \A token \in PatternTokens(statusLines[origin[i]]) :
             BitsOf(fileChanges[i].state) = TokenBits(token)

\* 'MM a' and 'MD a' parsed: kinds 1 and 9
C12_Witness ==
    /\ pc = "returned"
    /\ Len(fileChanges) = 2
    /\ statusLines[1] = <<"M", "M", " ", "a">>
    /\ fileChanges[1].state = 1
    /\ statusLines[2] = <<"M", "D", " ", "a">>
    /\ fileChanges[2].state = 9

----------------------------------------------------------------------------
(* Claims on the run of main *)

\* the log entries <<level, message, _>>
EntriesOf(level, message) ==
    {j \in 1..Len(log) : log[j][1] = level /\ log[j][2] = message}

\* the reply has the shape { commits: [{ title: string, changes: array }] }
HasCommitsShape(reply) ==
    /\ reply.kind = "json"
    /\ reply.parsedData.commits.type = "array"
    /\ \A k \in 1..Len(reply.parsedData.commits.value) :
         /\ reply.parsedData.commits.value[k].title.type = "string"
         /\ reply.parsedData.commits.value[k].changes.type = "array"

\* the titles and changes of a reply of that shape
GroupsOfReply(reply) ==
    [k \in 1..Len(reply.parsedData.commits.value) |->
        [title   |-> reply.parsedData.commits.value[k].title.value,
         changes |-> reply.parsedData.commits.value[k].changes.value]]

\* C13: the model is called at most once in a run; once it has been called, a
\* reply of the shape { commits: [{ title: string, changes: array }] } has given
\* its groups and the run goes on, and any other outcome has ended the process
\* with code 1, with nothing validated, displayed, asked or committed.
C13_ReplyGivesGroupsOrExit ==
    /\ Cardinality(CallsOf("chat.completions.create")) <= 1
    /\ pc \in {"validate", "confirm", "repairDuplicates", "repairInvalid", "commit", "commitFiles"}
         => CallsOf("chat.completions.create") # {}
    /\ \A j \in CallsOf("chat.completions.create") :
         IF HasCommitsShape(log[j][3])
         THEN /\ pc \in {"validate", "confirm", "repairDuplicates", "repairInvalid",
                         "commit", "commitFiles", "done"}
              /\ exitCode = -1
              /\ proposal = GroupsOfReply(log[j][3])
         ELSE /\ pc = "exit"
              /\ exitCode = 1
              /\ aiCommits = <<>>
              /\ validationResult = NoValidationResult
              /\ EntriesOf("info", " AI-Generated Commit Messages:") = {}
              /\ CallsOf("inquirer.prompt") = {}
              /\ CallsOf("commitFiles") = {}
              /\ CallsOf("git commit") = {}

\* a reply whose second commit has changes that is not an array has ended the process
C13_Witness ==
    /\ pc = "exit"
    /\ exitCode = 1
    /\ \E j \in CallsOf("chat.completions.create") :
         /\ log[j][3].kind = "json"
         /\ log[j][3].parsedData.commits.type = "array"
         /\ Len(log[j][3].parsedData.commits.value) = 2
         /\ log[j][3].parsedData.commits.value[2].changes.type = "string"

\* the calls that execute a commit: commitFiles, and the git commit it runs
CommitExecutions == CallsOf("commitFiles") \cup CallsOf("git commit")

\* C14: every commit-execution call comes after the display of the proposal, the
\* question and the answer yes, in that order, and the groups differ from the
\* proposal only after a yes; the question comes after the display of the
\* proposal as the model gave it and, when validation failed, of the lists of the
\* validation result; after a no there is no commit-execution call.
C14_NothingCommittedBeforeYes ==
    LET display == EntriesOf("info", " AI-Generated Commit Messages:")
        warned  == EntriesOf("warning", "Validation failed:")
        asked   == CallsOf("inquirer.prompt")
        yes     == EntriesOf("info", "4. Proceeding with the commit...")
        no      == EntriesOf("warning", "Commit has been canceled.")
    IN  /\ \A c \in CommitExecutions :
             \E d \in display, q \in asked, y \in yes : d < q /\ q < y /\ y < c
        /\ aiCommits # proposal => yes # {}
        /\ pc \in {"repairDuplicates", "repairInvalid", "commit", "commitFiles"} => yes # {}
        /\ \A q \in asked :
             /\ \E d \in display : d < q /\ log[d][3] = proposal
             /\ ~validationResult.valid =>
                  \E w \in warned : w < q /\ log[w][3] = validationResult
        /\ no # {} =>
             /\ yes = {}
             /\ CommitExecutions = {}
             /\ aiCommits = proposal
             /\ pc = "done"

\* a failed validation was displayed, the user answered no, and the run is over
C14_Witness ==
    /\ pc = "done"
    /\ EntriesOf("warning", "Commit has been canceled.") # {}
    /\ EntriesOf("warning", "Validation failed:") # {}
    /\ validationResult.duplicateFiles # <<>>
    /\ CommitExecutions = {}

\* the commitFiles calls that have returned
ReturnsOf(name) == {j \in 1..Len(log) : log[j][1] = "return" /\ log[j][2] = name}

\* how many of the log entries js come before entry j
Before(js, j) == Cardinality({i \in js : i < j})

\* C15: once commitFiles has been called the groups are the repaired ones and
\* stay so; the calls are made one per group in the order of the groups, each
\* after every earlier call has returned, so that at most one is in flight; git
\* commit is run inside a call, once for a group with files and not at all, and
\* with no error, for a group whose list of files is empty.
C15_CommitsInOrderOneAtATime ==
    LET calls   == CallsOf("commitFiles")
        returns == ReturnsOf("commitFiles")
        gits    == CallsOf("git commit")
    IN  /\ calls # {} => aiCommits = Repair(proposal, validationResult)
        /\ Len(CommitCalls) <= Len(aiCommits)
        /\ \A i \in 1..Len(CommitCalls) : CommitCalls[i] = aiCommits[i]
        /\ (pc = "done" /\ Confirmed) => Len(CommitCalls) = Len(aiCommits)
        /\ Cardinality(calls) - Cardinality(returns) = IF pc = "commitFiles" THEN 1 ELSE 0
        /\ \A j \in calls : Before(returns, j) = Before(calls, j)
        /\ \A r \in returns : Before(calls, r) = Before(returns, r) + 1
        /\ \A g \in gits :
             /\ Before(calls, g) = Before(returns, g) + 1
             /\ log[g][3].files # <<>>
             /\ \E j \in calls : j = g - 1 /\ log[j][3].files = log[g][3].files
        /\ \A j \in calls :
             /\ (log[j][3].files = <<>> /\ j < Len(log)) => (j + 1) \in returns
             /\ (log[j][3].files # <<>> /\ j < Len(log)) => (j + 1) \in gits

\* a run whose first group was repaired to the empty list: two calls, one git commit
C15_Witness ==
    /\ pc = "done"
    /\ Len(aiCommits) = 2
    /\ proposal[1].changes # <<>>
    /\ aiCommits[1].changes = <<>>
    /\ Cardinality(CallsOf("commitFiles")) = 2
    /\ Cardinality(ReturnsOf("commitFiles")) = 2
    /\ Cardinality(CallsOf("git commit")) = 1

\* the git commits that failed
FailedCommits == {g \in CallsOf("git commit") : ~log[g][3].ok}

\* C16: when the git commit of some group has failed, the failure is reported,
\* the commits made before it stay (nothing undoes them), and the run does not
\* report the commit as successfully completed.
C16_FailureIsNotMasked ==
    FailedCommits # {} =>
        /\ \A g \in FailedCommits :
             (g + 1) \in EntriesOf("error", "Error during commit:")
        /\ CallsOf("git reset") = {}
        /\ EntriesOf("info", "[OK] Commit completed successfully!") = {}

\* s can be got from t by leaving entries out, the others kept in their order
RECURSIVE IsSubsequence(_, _)
IsSubsequence(s, t) ==
    IF s = <<>> THEN TRUE
    ELSE IF t = <<>> THEN FALSE
    ELSE IF Head(s) = Head(t) THEN IsSubsequence(Tail(s), Tail(t))
    ELSE IsSubsequence(s, Tail(t))

\* the entries of a list of paths that validationResult flags neither as duplicate nor as invalid
Unflagged(changes) ==
    SelectSeq(changes, LAMBDA p :
        /\ p \notin Range(validationResult.duplicateFiles)
        /\ p \notin Range(validationResult.invalidFiles))

\* C17: the repair leaves the number of groups, their order and their titles as
\* they were; each group's changes are a subsequence of what the proposal gave
\* it, with every entry that is neither a duplicate nor invalid kept; and with no
\* duplicate and no invalid path the groups committed are those of the proposal.
C17_RepairOnlyRemovesFlagged ==
    /\ Len(aiCommits) = Len(proposal)
    /\ \A g \in 1..Len(proposal) :
         /\ aiCommits[g].title = proposal[g].title
         /\ IsSubsequence(aiCommits[g].changes, proposal[g].changes)
         /\ Validated => Unflagged(aiCommits[g].changes) = Unflagged(proposal[g].changes)
    /\ (Validated /\ validationResult.duplicateFiles = <<>> /\ validationResult.invalidFiles = <<>>) =>
         /\ aiCommits = proposal
         /\ \A i \in 1..Len(CommitCalls) : CommitCalls[i] = proposal[i]

\* a repaired run: a group lost its invalid path and kept the others in order,
\* and it has been committed
C17_Witness ==
    /\ pc = "done"
    /\ Confirmed
    /\ validationResult.invalidFiles # <<>>
    /\ \E g \in 1..Len(proposal) :
         /\ Len(proposal[g].changes) = 3
         /\ Len(aiCommits[g].changes) = 2
         /\ aiCommits[g].changes = <<proposal[g].changes[1], proposal[g].changes[3]>>

\* a run whose result was invalid on missing files only, committed as proposed
C17_WitnessMissingOnly ==
    /\ pc = "done"
    /\ Confirmed
    /\ ~validationResult.valid
    /\ validationResult.duplicateFiles = <<>>
    /\ validationResult.invalidFiles = <<>>
    /\ CommitCalls = proposal
    /\ proposal # <<>>

====
